---- MODULE Spec2Model ----
(***************************************************************************)
(* A model of bbc_pipeline/pipeline.py: the retrying fetch (safe_get_html),*)
(* link discovery, field extraction, the publication-time normaliser       *)
(* (parse_published_to_iso), the SQLite store (init_db, get_existing_urls, *)
(* upsert_rows, print_newest) and the orchestration in main.               *)
(*                                                                         *)
(* Text is modelled as a sequence of tokens (whitespace runs, digit runs,  *)
(* words, ISO-8601 timestamps), so that stripping, the regular expression  *)
(* REL_RE and the ISO parse are computed on the text and not assumed.      *)
(* An instant is [day, min]: the proleptic Gregorian ordinal of its date   *)
(* (datetime.toordinal) and the minute of its day.                         *)
(***************************************************************************)
EXTENDS Integers, Sequences, FiniteSets, TLC

VARIABLES
    store,      \* the rows of table bbc_articles
    store0,     \* history: the rows when the run began
    args,       \* the parsed command line: retries, sleep, limit_links, newest
    env,        \* the clock and the local UTC offset of the process
    pc,         \* main's position
    run_ts_utc, \* main's run timestamp (text)
    get,        \* the activation of safe_get_html: url, attempt, state, result
    links,      \* main's links
    existing,   \* main's existing
    to_fetch,   \* main's to_fetch
    idx,        \* the 1-based position of the article loop in to_fetch
    rows_out,   \* main's rows_out (upsert_rows' argument)
    ok,         \* main's ok counter
    fail,       \* main's fail counter
    inserted,   \* upsert_rows' return value (-1: not called)
    newest,     \* the rows print_newest selected (printed)
    calls,      \* the run's effects in order: GETs, sleeps, printed reports, upserts
    norm,       \* one activation of parse_published_to_iso: inputs and outcome
    peer,       \* another run of main on the same database file, where there is one
    txn         \* the connection of an upsert_rows call in progress: its transaction

vars == <<store, store0, args, env, pc, run_ts_utc, get, links, existing,
          to_fetch, idx, rows_out, ok, fail, inserted, newest, calls, norm, peer, txn>>

(***************************************************************************)
(* Bounds of the model.                                                    *)
(***************************************************************************)
MaxRetries == 1
MaxAnchors == 2

(***************************************************************************)
(* Limits of the datetime library the program computes with.               *)
(***************************************************************************)
MaxOrdinal == 3652059
MaxTimedeltaDays == 999999999
MinutesPerDay == 24 * 60

\* safe_get_html's default backoff; main never overrides it.
DefaultBackoff == 2

(***************************************************************************)
(* Text.                                                                   *)
(***************************************************************************)
Ws == [t |-> "ws"]
Num(n) == [t |-> "num", n |-> n]
Word(w) == [t |-> "word", w |-> w]
\* "YYYY-MM-DDTHH:MM:00" followed by Z (tz = "Z"), by a numeric offset of
\* off minutes (tz = "off") or by nothing (tz = "naive").  A minute of day
\* beyond 1439 stands for an hour field beyond 23: well-shaped, not a time.
Iso(day, min, tz, off) == [t |-> "iso", day |-> day, min |-> min, tz |-> tz, off |-> off]
\* an ISO-8601 UTC timestamp in a form datetime.fromisoformat does not read:
\* "YYYY-DDDTHH:MM:00Z" (form "ordinal": the date by its day of the year) or
\* "YYYY-MM-DDT23:59:60Z" (form "leap": the leap second that ends minute min)
IsoAlt(form, day, min) == [t |-> "isoalt", form |-> form, day |-> day, min |-> min, tz |-> "Z"]

EmptyStr == << >>

\* str.lower on the words of the model.
Lower(w) ==
    CASE w = "HOURS" -> "hours"
      [] w = "Weeks" -> "weeks"
      [] w = "Minute" -> "minute"
      [] w = "AGO" -> "ago"
      [] OTHER -> w

WordsWithT == {"TBC"}
WordsEndingZ == {"QUIZ"}

RECURSIVE LStrip(_)
LStrip(s) == IF s # << >> /\ Head(s).t = "ws" THEN LStrip(Tail(s)) ELSE s

RECURSIVE RStrip(_)
RStrip(s) ==
    IF s # << >> /\ s[Len(s)].t = "ws" THEN RStrip(SubSeq(s, 1, Len(s) - 1)) ELSE s

\* str.strip
Strip(s) == RStrip(LStrip(s))

\* p.endswith("Z")
EndsWithZ(p) ==
    /\ p # << >>
    /\ LET last == p[Len(p)]
       IN \/ last.t \in {"iso", "isoalt"} /\ last.tz = "Z"
          \/ last.t = "word" /\ last.w \in WordsEndingZ

\* "T" in p
HasT(p) ==
    \E i \in 1..Len(p) : \/ p[i].t \in {"iso", "isoalt"}
                         \/ p[i].t = "word" /\ p[i].w \in WordsWithT

\* "+" in p
HasPlus(p) == \E i \in 1..Len(p) : p[i].t = "iso" /\ p[i].tz = "off" /\ p[i].off >= 0

\* p.endswith("00:00")
EndsWith0000(p) ==
    /\ p # << >>
    /\ LET last == p[Len(p)]
       IN /\ last.t = "iso"
          /\ \/ last.tz = "off" /\ last.off = 0
             \/ last.tz = "naive" /\ last.min % 60 = 0

(***************************************************************************)
(* Instants and datetime arithmetic.                                       *)
(***************************************************************************)
InRange(dt) == dt.day >= 1 /\ dt.day <= MaxOrdinal

\* dt - timedelta(days, minutes), before the range check
Minus(dt, days, mins) ==
    LET m == dt.min - mins
    IN [day |-> dt.day - days + (m \div MinutesPerDay), min |-> m % MinutesPerDay]

\* datetime.fromisoformat: the text is one well-formed timestamp, in a form
\* it reads (it raises ValueError on an ordinal date and on second 60)
IsIsoText(p) ==
    /\ Len(p) = 1
    /\ p[1].t = "iso"
    /\ p[1].day >= 1 /\ p[1].day <= MaxOrdinal
    /\ p[1].min >= 0 /\ p[1].min < MinutesPerDay
    /\ p[1].off > -MinutesPerDay /\ p[1].off < MinutesPerDay

\* the UTC offset of a parsed timestamp: Z was replaced by +00:00; a naive
\* one is taken as local time by astimezone
OffsetOf(tok, localoff) ==
    CASE tok.tz = "Z" -> 0
      [] tok.tz = "off" -> tok.off
      [] OTHER -> localoff

\* datetime.fromisoformat(p).astimezone(timezone.utc), before the range check
ToUtc(p, localoff) == Minus([day |-> p[1].day, min |-> p[1].min], 0, OffsetOf(p[1], localoff))

RECURSIVE Digits(_, _)
Digits(n, width) ==
    IF width = 0 THEN << >> ELSE Append(Digits(n \div 10, width - 1), n % 10)

\* datetime.isoformat of a UTC instant: fixed-width, zero-padded decimal
\* fields, most significant first (the date fields, then the time fields)
IsoFormat(dt) == Digits(dt.day, 7) \o Digits(dt.min, 4)

Returned(s) == [raised |-> FALSE, value |-> s]
Raised == [raised |-> TRUE, value |-> EmptyStr]

(***************************************************************************)
(* parse_published_to_iso.                                                 *)
(***************************************************************************)
UnitWords == {"minute", "minutes", "hour", "hours", "day", "days", "week", "weeks"}

\* REL_RE.match(p): ^\s*(\d+)\s+(unit)\s+ago\s*$ with re.I
RelMatch(p) ==
    LET q == Strip(p)
    IN /\ Len(q) = 5
       /\ q[1].t = "num"
       /\ q[2].t = "ws"
       /\ q[3].t = "word" /\ Lower(q[3].w) \in UnitWords
       /\ q[4].t = "ws"
       /\ q[5].t = "word" /\ Lower(q[5].w) = "ago"

\* m.group(1) as int, m.group(2).lower()
RelN(p) == Strip(p)[1].n
RelUnit(p) == Lower(Strip(p)[3].w)

\* stem in unit
UnitHas(unit, stem) ==
    CASE stem = "minute" -> unit \in {"minute", "minutes"}
      [] stem = "hour" -> unit \in {"hour", "hours"}
      [] stem = "day" -> unit \in {"day", "days"}
      [] stem = "week" -> unit \in {"week", "weeks"}
      [] OTHER -> FALSE

\* the try block of the two ISO rules: the text returned, or NoIso when no
\* rule applies or the parse or the conversion raises (except: pass)
NoIso == [ok |-> FALSE, value |-> EmptyStr]
IsoRules(p, localoff) ==
    IF EndsWithZ(p)
    THEN IF IsIsoText(p) /\ InRange(ToUtc(p, localoff))
         THEN [ok |-> TRUE, value |-> IsoFormat(ToUtc(p, localoff))]
         ELSE NoIso
    ELSE IF HasT(p) /\ (HasPlus(p) \/ EndsWith0000(p))
         THEN IF IsIsoText(p) /\ InRange(ToUtc(p, localoff))
              THEN [ok |-> TRUE, value |-> IsoFormat(ToUtc(p, localoff))]
              ELSE NoIso
         ELSE NoIso

\* the anchor of a relative time: run_ts_utc parsed and converted to UTC (a
\* naive one is given UTC), or the clock when that raises
RelBase(run_ts, now) ==
    IF IsIsoText(run_ts)
    THEN LET tok == run_ts[1]
             utc == Minus([day |-> tok.day, min |-> tok.min], 0,
                          IF tok.tz = "off" THEN tok.off ELSE 0)
         IN IF InRange(utc) THEN utc ELSE now
    ELSE now

\* timedelta(minutes=n), (hours=n), (days=n), (weeks=n), normalised to days and
\* minutes
Timedelta(unit, n) ==
    CASE UnitHas(unit, "minute") -> [days |-> n \div MinutesPerDay, mins |-> n % MinutesPerDay]
      [] UnitHas(unit, "hour") -> [days |-> n \div 24, mins |-> (n % 24) * 60]
      [] UnitHas(unit, "day") -> [days |-> n, mins |-> 0]
      [] OTHER -> [days |-> 7 * n, mins |-> 0]

\* the relative rule: timedelta raises OverflowError beyond its range, and so
\* does the subtraction when the result is no date; neither is in a try
RelRule(p, run_ts, now) ==
    LET base == RelBase(run_ts, now)
        unit == RelUnit(p)
        td == Timedelta(unit, RelN(p))
        dt == Minus(base, td.days, td.mins)
    IN IF ~(\E stem \in {"minute", "hour", "day", "week"} : UnitHas(unit, stem))
       THEN Returned(EmptyStr)
       ELSE IF td.days > MaxTimedeltaDays
            THEN Raised
            ELSE IF InRange(dt) THEN Returned(IsoFormat(dt)) ELSE Raised

parse_published_to_iso(published_raw, run_ts, now, localoff) ==
    IF published_raw = EmptyStr
    THEN Returned(EmptyStr)
    ELSE LET p == Strip(published_raw)
             iso == IsoRules(p, localoff)
         IN IF iso.ok
            THEN Returned(iso.value)
            ELSE IF RelMatch(p)
                 THEN RelRule(p, run_ts, now)
                 ELSE Returned(EmptyStr)

(***************************************************************************)
(* Inputs of the normaliser.                                               *)
(***************************************************************************)
\* the ordinal of 2026-02-25: 2025 whole years, their 491 leap days, 56 days
RunDay == 2025 * 365 + 491 + 56
Nums == {0, 1, 3, 90, 1000000, 200000000}
RelText(n, w, pad) ==
    IF pad THEN <<Ws, Num(n), Ws, Word(w), Ws, Word("ago"), Ws>>
           ELSE <<Num(n), Ws, Word(w), Ws, Word("ago")>>
RelWords == UnitWords \cup {"HOURS", "Weeks", "Minute"}
RelInputs == {RelText(n, w, pad) : n \in Nums, w \in RelWords, pad \in BOOLEAN}
OtherInputs ==
    { EmptyStr,
      <<Ws>>,
      <<Word("garbage"), Ws, Word("text")>>,
      <<Word("QUIZ")>>,
      <<Word("TBC")>>,
      <<Num(3), Ws, Word("months"), Ws, Word("ago")>>,
      <<Num(3), Word("days"), Ws, Word("ago")>>,
      <<Num(3), Ws, Word("days"), Ws, Word("AGO")>>,
      <<Num(3), Ws, Word("days")>>,
      <<Iso(RunDay, 272, "Z", 0)>>,
      <<Ws, Iso(RunDay, 272, "Z", 0), Ws>>,
      <<Iso(RunDay, 1500, "Z", 0)>>,
      <<Iso(1, 0, "off", 300)>>,
      <<Iso(RunDay, 272, "off", 330)>>,
      <<Iso(RunDay, 272, "off", -300)>>,
      <<Iso(RunDay, 600, "naive", 0)>>,
      <<Iso(RunDay, 272, "naive", 0)>>,
      <<Iso(1, 30, "Z", 0)>>,
      <<Iso(MaxOrdinal, 1439, "Z", 0)>>,
      <<IsoAlt("ordinal", RunDay, 272)>>,
      <<IsoAlt("leap", RunDay, 1439)>>,
      <<Word("Updated"), Ws, Iso(RunDay, 272, "Z", 0)>> }
RawInputs == RelInputs \cup OtherInputs

\* a run reference: parseable (UTC, offset, naive, Z) or not
ParseableRefs ==
    { <<Iso(RunDay, 300, "off", 0)>>,
      <<Iso(RunDay, 300, "off", 120)>>,
      <<Iso(RunDay, 300, "naive", 0)>>,
      <<Iso(RunDay, 300, "Z", 0)>> }
RefInputs ==
    ParseableRefs \cup { <<Word("garbage")>>, EmptyStr, <<Iso(1, 0, "off", 300)>> }
Clocks == { [day |-> RunDay, min |-> 300], [day |-> RunDay + 1, min |-> 7] }
LocalOffsets == {0, 60}

NormIdle == [st |-> "idle"]

\* no other run
PeerIdle == [pc |-> "none"]

\* no connection open
NoTxn == [st |-> "none"]

(***************************************************************************)
(* safe_get_html: one activation is get = [st, url, attempt, retries,      *)
(* backoff, ret].  A response body is nothing (None), the empty text, a    *)
(* homepage (its anchors in document order) or an article page.            *)
(***************************************************************************)
None == [kind |-> "None"]
EmptyBody == [kind |-> "empty"]
GetIdle == [st |-> "idle"]

\* not html
Falsy(body) == body.kind \in {"None", "empty"}

Activation(url, retries, backoff) ==
    [st |-> "running", url |-> url, attempt |-> 0, retries |-> retries,
     backoff |-> backoff, ret |-> None]

\* a GET and what came of it: "failed" (RequestException), "empty" (2xx with
\* an empty text) or "page" (2xx with markup)
GetEvent(url, status) == [op |-> "GET", url |-> url, status |-> status]
SleepEvent(why, secs) == [op |-> "sleep", why |-> why, secs |-> secs]
PrintEvent(what) == [op |-> "print", what |-> what]

\* what safe_get_html leaves alone
others == <<store, store0, args, env, pc, run_ts_utc, links, existing, to_fetch,
            idx, rows_out, ok, fail, inserted, newest, norm, peer, txn>>

\* a variant: the wait counts attempts from zero
BackoffWaitFromZero(backoff, attempt) == backoff * attempt

\* wait = backoff * (attempt + 1)
BackoffWait(backoff, attempt) == backoff * (attempt + 1)

\* for attempt in range(retries + 1)
InRangeOfRetries(attempt, retries) == attempt < retries + 1

\* requests.get succeeded: return r.text
GetSucceeds(body) ==
    /\ get.st = "running"
    /\ InRangeOfRetries(get.attempt, get.retries)
    /\ get' = [get EXCEPT !.st = "done", !.ret = body]
    /\ calls' = Append(calls, GetEvent(get.url, IF body.kind = "empty" THEN "empty" ELSE "page"))
    /\ UNCHANGED others

\* requests.get raised RequestException: warn, sleep, next attempt
GetFails ==
    /\ get.st = "running"
    /\ InRangeOfRetries(get.attempt, get.retries)
    /\ get' = [get EXCEPT !.attempt = @ + 1]
    /\ calls' = calls \o << GetEvent(get.url, "failed"),
                           SleepEvent("backoff", BackoffWait(get.backoff, get.attempt)) >>
    /\ UNCHANGED others

\* the loop ran out: print the error, return None
GetGivesUp ==
    /\ get.st = "running"
    /\ ~InRangeOfRetries(get.attempt, get.retries)
    /\ get' = [get EXCEPT !.st = "done", !.ret = None]
    /\ calls' = Append(calls, PrintEvent("All retries failed"))
    /\ UNCHANGED others

(***************************************************************************)
(* extract_homepage_article_urls.  An anchor is [href, host, path, frag]:  *)
(* href tells whether the stripped href is non-empty, host is "" for a     *)
(* relative reference, path is the list of path segments.  A URL is        *)
(* [host, path].                                                           *)
(***************************************************************************)
BBC_HOSTS == {"www.bbc.com", "bbc.com"}
BaseHost == "www.bbc.com"
HomepageUrl == [host |-> BaseHost, path |-> << >>]

\* netloc.lower()
LowerHost(h) == IF h = "WWW.BBC.COM" THEN "www.bbc.com" ELSE h

\* NEWS_PATH_RE.match(path): ^/news(/|/articles/)
NewsPath(path) == Len(path) >= 2 /\ path[1] = "news"

\* urljoin(base, href)
UrlJoin(a) == [host |-> IF a.host = "" THEN BaseHost ELSE a.host, path |-> a.path,
               frag |-> a.frag]

\* the first loop: the normalised URL of every kept anchor, in document order
RECURSIVE Found(_)
Found(anchors) ==
    IF anchors = << >> THEN << >>
    ELSE LET a == Head(anchors)
             full == UrlJoin(a)
         IN IF ~a.href
            THEN Found(Tail(anchors))
            ELSE IF LowerHost(full.host) \notin BBC_HOSTS \/ ~NewsPath(full.path)
                 THEN Found(Tail(anchors))
                 ELSE <<[host |-> full.host, path |-> full.path]>> \o Found(Tail(anchors))

\* the second loop: de-dupe, preserve order
RECURSIVE DeDupe(_, _)
DeDupe(found, seen) ==
    IF found = << >> THEN << >>
    ELSE IF Head(found) \in seen
         THEN DeDupe(Tail(found), seen)
         ELSE <<Head(found)>> \o DeDupe(Tail(found), seen \cup {Head(found)})

extract_homepage_article_urls(html) == DeDupe(Found(html.anchors), {})

\* seq[:n]
Slice(seq, n) ==
    IF n >= 0
    THEN SubSeq(seq, 1, IF n < Len(seq) THEN n ELSE Len(seq))
    ELSE SubSeq(seq, 1, IF Len(seq) + n > 0 THEN Len(seq) + n ELSE 0)

(***************************************************************************)
(* extract_article_fields.  A page is its h1 elements (texts), its time    *)
(* elements ([attr, datetime, text]: whether the datetime attribute is     *)
(* there, its value, the visible text) and its p elements ([text, len]).   *)
(***************************************************************************)
ParaMin == 60

\* a variant: a paragraph of exactly ParaMin characters is taken too
FirstParaFromParaMin(ps) ==
    LET long == {i \in 1..Len(ps) : ps[i].text # "" /\ ps[i].len >= ParaMin}
    IN IF long = {} THEN ""
       ELSE ps[CHOOSE i \in long : \A j \in long : i <= j].text

\* the loop over soup.find_all("p"): the first txt with len(txt) > 60
FirstPara(ps) ==
    LET long == {i \in 1..Len(ps) : ps[i].text # "" /\ ps[i].len > ParaMin}
    IN IF long = {} THEN ""
       ELSE ps[CHOOSE i \in long : \A j \in long : i <= j].text

extract_article_fields(html, url) ==
    [ url |-> url,
      title |-> IF html.h1 = << >> THEN "" ELSE html.h1[1],
      published_raw |->
          IF html.time = << >> THEN EmptyStr
          ELSE LET t == html.time[1]
               IN Strip(IF t.attr /\ t.datetime # EmptyStr THEN t.datetime ELSE t.text),
      first_paragraph |-> FirstPara(html.p) ]

(***************************************************************************)
(* The store: table bbc_articles as its set of rows.                       *)
(***************************************************************************)
\* CREATE TABLE IF NOT EXISTS
init_db(rows) == rows

\* SELECT url FROM bbc_articles
get_existing_urls(rows) == {r.url : r \in rows}

\* the six columns bound from row.get(...)
RowOf(d) ==
    [ url |-> d.url, run_ts_utc |-> d.run_ts_utc, title |-> d.title,
      published_raw |-> d.published_raw, published_iso |-> d.published_iso,
      first_paragraph |-> d.first_paragraph ]

\* a variant: an upsert that merges, keeping the old value of a column the
\* new record leaves empty
MergeRows(old, new) ==
    [ url |-> new.url, run_ts_utc |-> new.run_ts_utc,
      title |-> IF new.title = "" THEN old.title ELSE new.title,
      published_raw |-> IF new.published_raw = EmptyStr THEN old.published_raw ELSE new.published_raw,
      published_iso |-> IF new.published_iso = EmptyStr THEN old.published_iso ELSE new.published_iso,
      first_paragraph |-> IF new.first_paragraph = "" THEN old.first_paragraph ELSE new.first_paragraph ]
InsertOrMerge(rows, d) ==
    IF \E r \in rows : r.url = d.url
    THEN {IF r.url = d.url THEN MergeRows(r, d) ELSE r : r \in rows}
    ELSE rows \cup {RowOf(d)}

\* a variant: INSERT OR IGNORE, the row in conflict stays
InsertOrIgnore(rows, d) ==
    IF \E r \in rows : r.url = d.url THEN rows ELSE rows \cup {RowOf(d)}

\* INSERT OR REPLACE under PRIMARY KEY url: the rows in conflict go, the row
\* comes in
InsertOrReplace(rows, d) == {r \in rows : r.url # d.url} \cup {RowOf(d)}

RECURSIVE InsertAll(_, _)
InsertAll(rows, ds) ==
    IF ds = << >> THEN rows ELSE InsertAll(InsertOrReplace(rows, Head(ds)), Tail(ds))

\* upsert_rows: the table after the commit, and the count returned
upsert_rows(rows, ds) ==
    IF ds = << >> THEN [rows |-> rows, n |-> 0]
    ELSE [rows |-> InsertAll(rows, ds), n |-> Len(ds)]

\* text comparison under SQLite's BINARY collation (memcmp, a prefix is less)
RECURSIVE StrLess(_, _)
StrLess(a, b) ==
    IF b = << >> THEN FALSE
    ELSE IF a = << >> THEN TRUE
    ELSE IF Head(a) # Head(b) THEN Head(a) < Head(b)
    ELSE StrLess(Tail(a), Tail(b))

\* a variant: no WHERE clause
NotFiltered(rows) == rows

\* WHERE published_iso != ''
Dated(rows) == {r \in rows : r.published_iso # EmptyStr}

\* LIMIT n: a negative limit is no limit
LimitCount(n, avail) == IF n < 0 \/ n > avail THEN avail ELSE n

\* ORDER BY published_iso DESC: s is a prefix of a descending order of rows
DescPrefix(s, rows) ==
    /\ \A i, j \in 1..Len(s) : i < j => s[i] # s[j] /\ ~StrLess(s[i].published_iso, s[j].published_iso)
    /\ \A r \in rows : (\A i \in 1..Len(s) : s[i] # r) =>
           \A i \in 1..Len(s) : ~StrLess(s[i].published_iso, r.published_iso)

\* print_newest's SELECT: every list of rows it may return (ties are in no
\* defined order)
print_newest(rows, n) ==
    LET q == Dated(rows)
        k == LimitCount(n, Cardinality(q))
    IN { [i \in 1..k |-> [published_iso |-> s[i].published_iso, title |-> s[i].title,
                          url |-> s[i].url]] : s \in {t \in [1..k -> q] : DescPrefix(t, q)} }

(***************************************************************************)
(* The world a run meets: command lines, homepages, article pages, and the *)
(* rows the table holds when the run begins.                               *)
(***************************************************************************)
ArgsChoices ==
    [retries : 0..MaxRetries, sleep : {1}, limit_links : {1, 60}, newest : {1, 10}]

Anchor(href, host, path, frag) == [href |-> href, host |-> host, path |-> path, frag |-> frag]
Anchors ==
    { Anchor(TRUE, "", <<"news", "articles", "a1">>, ""),
      Anchor(TRUE, "www.bbc.com", <<"news", "articles", "a1">>, "comments"),
      Anchor(TRUE, "bbc.com", <<"news", "a2">>, ""),
      Anchor(TRUE, "www.bbc.com", <<"news", "articles", "a3">>, ""),
      Anchor(TRUE, "example.com", <<"news", "articles", "a1">>, ""),
      Anchor(TRUE, "www.bbc.com", <<"sport", "x">>, ""),
      Anchor(FALSE, "", << >>, "") }

RECURSIVE SeqsUpTo(_, _)
SeqsUpTo(S, n) ==
    IF n = 0 THEN { << >> }
    ELSE LET shorter == SeqsUpTo(S, n - 1)
         IN shorter \cup {Append(q, x) : q \in shorter, x \in S}

Homepages == {[kind |-> "home", anchors |-> a] : a \in SeqsUpTo(Anchors, MaxAnchors)}

U1 == [host |-> "www.bbc.com", path |-> <<"news", "articles", "a1">>]
U2 == [host |-> "bbc.com", path |-> <<"news", "a2">>]
U3 == [host |-> "www.bbc.com", path |-> <<"news", "articles", "a3">>]
U9 == [host |-> "www.bbc.com", path |-> <<"news", "articles", "old">>]

TimeEl(attr, datetime, text) == [attr |-> attr, datetime |-> datetime, text |-> text]
Para(text, len) == [text |-> text, len |-> len]
Page(h1, time, p) == [kind |-> "article", h1 |-> h1, time |-> time, p |-> p]
ArticlePages ==
    { Page(<<"Test Title">>, <<TimeEl(TRUE, <<Iso(RunDay, 272, "Z", 0)>>, EmptyStr)>>,
           <<Para("short", 5), Para("lead", 120)>>),
      Page(<<"Live">>, <<TimeEl(FALSE, EmptyStr, <<Ws, Num(3), Ws, Word("hours"), Ws, Word("ago")>>)>>,
           <<Para("lead", 61)>>),
      Page(<< >>, << >>, <<Para("short", 60)>>),
      Page(<<"Archive">>, <<TimeEl(TRUE, EmptyStr, <<Num(1000000), Ws, Word("weeks"), Ws, Word("ago")>>)>>,
           << >>) }

\* what a server may answer to a GET of url with a 2xx status
Bodies(url) == {EmptyBody} \cup (IF url = HomepageUrl THEN Homepages ELSE ArticlePages)

OldRow(url, iso) ==
    [ url |-> url, run_ts_utc |-> <<Iso(RunDay - 1, 0, "off", 0)>>, title |-> "Old",
      published_raw |-> EmptyStr, published_iso |-> iso, first_paragraph |-> "old lead" ]
InitialStores ==
    { {}, {OldRow(U1, EmptyStr)}, {OldRow(U2, IsoFormat([day |-> RunDay - 1, min |-> 30])),
                                   OldRow(U9, IsoFormat([day |-> RunDay, min |-> 100]))} }

MainEnvs == [now : {[day |-> RunDay, min |-> 300]}, localoff : {0}]

(***************************************************************************)
(* main.                                                                   *)
(***************************************************************************)
NotCalled == -1
NoRows == << >>

Init ==
    /\ store \in InitialStores
    /\ store0 = store
    /\ args \in ArgsChoices
    /\ env \in MainEnvs
    /\ pc = "start"
    /\ run_ts_utc = EmptyStr
    /\ get = GetIdle
    /\ links = << >>
    /\ existing = {}
    /\ to_fetch = << >>
    /\ idx = 0
    /\ rows_out = << >>
    /\ ok = 0
    /\ fail = 0
    /\ inserted = NotCalled
    /\ newest = NoRows
    /\ calls = << >>
    /\ norm = NormIdle
    /\ peer = PeerIdle
    /\ txn = NoTxn

\* datetime.now(timezone.utc).isoformat()
NowText(now) == <<Iso(now.day, now.min, "off", 0)>>

\* lines 228-234: init_db, the run timestamp, the homepage fetch begins
MainBegin ==
    /\ pc = "start"
    /\ store' = init_db(store)
    /\ run_ts_utc' = NowText(env.now)
    /\ get' = Activation(HomepageUrl, args.retries, DefaultBackoff)
    /\ pc' = "fetch_home"
    /\ UNCHANGED <<store0, args, env, links, existing, to_fetch, idx, rows_out, ok,
                   fail, inserted, newest, calls, norm, peer, txn>>

\* a variant: the failed homepage is taken for one with no links
MainAbortIgnored ==
    /\ pc = "fetch_home"
    /\ get.st = "done"
    /\ Falsy(get.ret)
    /\ links' = << >>
    /\ get' = GetIdle
    /\ pc' = "filter"
    /\ UNCHANGED <<store, store0, args, env, run_ts_utc, existing, to_fetch, idx,
                   rows_out, ok, fail, inserted, newest, calls, norm, peer, txn>>

\* lines 235-237: if not home_html: report and return
MainAbort ==
    /\ pc = "fetch_home"
    /\ get.st = "done"
    /\ Falsy(get.ret)
    /\ calls' = Append(calls, PrintEvent("Could not fetch homepage"))
    /\ get' = GetIdle
    /\ pc' = "aborted"
    /\ UNCHANGED <<store, store0, args, env, run_ts_utc, links, existing, to_fetch, idx,
                   rows_out, ok, fail, inserted, newest, norm, peer, txn>>

\* lines 239-240
MainDiscover ==
    /\ pc = "fetch_home"
    /\ get.st = "done"
    /\ ~Falsy(get.ret)
    /\ links' = Slice(extract_homepage_article_urls(get.ret), args.limit_links)
    /\ get' = GetIdle
    /\ pc' = "filter"
    /\ UNCHANGED <<store, store0, args, env, run_ts_utc, existing, to_fetch, idx,
                   rows_out, ok, fail, inserted, newest, calls, norm, peer, txn>>

\* a variant: no filter
AllLinks(seq, S) == seq

\* [u for u in links if u not in existing]
NotIn(seq, S) == SelectSeq(seq, LAMBDA u : u \notin S)

\* lines 242-248
MainFilter ==
    /\ pc = "filter"
    /\ existing' = get_existing_urls(store)
    /\ to_fetch' = NotIn(links, existing')
    /\ rows_out' = << >>
    /\ ok' = 0
    /\ fail' = 0
    /\ idx' = 1
    /\ pc' = "loop"
    /\ UNCHANGED <<store, store0, args, env, run_ts_utc, get, links, inserted, newest,
                   calls, norm, peer, txn>>

\* lines 250-252: the next URL of to_fetch, its fetch begins
MainFetchArticle ==
    /\ pc = "loop"
    /\ idx <= Len(to_fetch)
    /\ get' = Activation(to_fetch[idx], args.retries, DefaultBackoff)
    /\ pc' = "fetch_article"
    /\ UNCHANGED <<store, store0, args, env, run_ts_utc, links, existing, to_fetch, idx,
                   rows_out, ok, fail, inserted, newest, calls, norm, peer, txn>>

\* a variant: a failed fetch leaves a record of its URL with empty fields
MainArticleFailedBuffered ==
    /\ pc = "fetch_article"
    /\ get.st = "done"
    /\ Falsy(get.ret)
    /\ fail' = fail + 1
    /\ rows_out' = Append(rows_out,
           [ url |-> get.url, title |-> "", published_raw |-> EmptyStr, first_paragraph |-> "",
             run_ts_utc |-> run_ts_utc, published_iso |-> EmptyStr ])
    /\ idx' = idx + 1
    /\ get' = GetIdle
    /\ pc' = "loop"
    /\ UNCHANGED <<store, store0, args, env, run_ts_utc, links, existing, to_fetch,
                   ok, inserted, newest, calls, norm, peer, txn>>

\* a variant: the failed fetch is skipped and not counted
MainArticleFailedUncounted ==
    /\ pc = "fetch_article"
    /\ get.st = "done"
    /\ Falsy(get.ret)
    /\ idx' = idx + 1
    /\ get' = GetIdle
    /\ pc' = "loop"
    /\ UNCHANGED <<store, store0, args, env, run_ts_utc, links, existing, to_fetch,
                   rows_out, ok, fail, inserted, newest, calls, norm, peer, txn>>

\* lines 253-255: if not html: fail += 1; continue
MainArticleFailed ==
    /\ pc = "fetch_article"
    /\ get.st = "done"
    /\ Falsy(get.ret)
    /\ fail' = fail + 1
    /\ idx' = idx + 1
    /\ get' = GetIdle
    /\ pc' = "loop"
    /\ UNCHANGED <<store, store0, args, env, run_ts_utc, links, existing, to_fetch,
                   rows_out, ok, inserted, newest, calls, norm, peer, txn>>

\* lines 257-259: the record of a fetched page, before published_iso is set
ArticleData(html, url, run_ts) ==
    LET d == extract_article_fields(html, url)
    IN [ url |-> d.url, title |-> d.title, published_raw |-> d.published_raw,
         first_paragraph |-> d.first_paragraph, run_ts_utc |-> run_ts ]

\* a variant: each article is written to the table as soon as it is processed
MainArticleOkWriteThrough ==
    /\ pc = "fetch_article"
    /\ get.st = "done"
    /\ ~Falsy(get.ret)
    /\ LET d == ArticleData(get.ret, get.url, run_ts_utc)
           r == parse_published_to_iso(d.published_raw, run_ts_utc, env.now, env.localoff)
           row == [ url |-> d.url, title |-> d.title, published_raw |-> d.published_raw,
                    first_paragraph |-> d.first_paragraph, run_ts_utc |-> d.run_ts_utc,
                    published_iso |-> r.value ]
       IN /\ ~r.raised
          /\ rows_out' = Append(rows_out, row)
          /\ store' = {x \in store : x.url # row.url} \cup {row}
    /\ ok' = ok + 1
    /\ calls' = Append(calls, SleepEvent("pace", args.sleep))
    /\ idx' = idx + 1
    /\ get' = GetIdle
    /\ pc' = "loop"
    /\ UNCHANGED <<store0, args, env, run_ts_utc, links, existing, to_fetch,
                   fail, inserted, newest, norm, peer, txn>>

\* lines 257-264: extract, normalise, buffer, count, pace
MainArticleOk ==
    /\ pc = "fetch_article"
    /\ get.st = "done"
    /\ ~Falsy(get.ret)
    /\ \E d \in {ArticleData(get.ret, get.url, run_ts_utc)} :
       \E r \in {parse_published_to_iso(d.published_raw, run_ts_utc, env.now, env.localoff)} :
          /\ ~r.raised
          /\ rows_out' = Append(rows_out,
                 [ url |-> d.url, title |-> d.title, published_raw |-> d.published_raw,
                   first_paragraph |-> d.first_paragraph, run_ts_utc |-> d.run_ts_utc,
                   published_iso |-> r.value ])
    /\ ok' = ok + 1
    /\ calls' = Append(calls, SleepEvent("pace", args.sleep))
    /\ idx' = idx + 1
    /\ get' = GetIdle
    /\ pc' = "loop"
    /\ UNCHANGED <<store, store0, args, env, run_ts_utc, links, existing, to_fetch,
                   fail, inserted, newest, norm, peer, txn>>

\* line 259: parse_published_to_iso raises and nothing catches it
MainArticleRaises ==
    /\ pc = "fetch_article"
    /\ get.st = "done"
    /\ ~Falsy(get.ret)
    /\ \E d \in {ArticleData(get.ret, get.url, run_ts_utc)} :
       \E r \in {parse_published_to_iso(d.published_raw, run_ts_utc, env.now, env.localoff)} :
          r.raised
    /\ calls' = Append(calls, PrintEvent("Traceback"))
    /\ get' = GetIdle
    /\ pc' = "crashed"
    /\ UNCHANGED <<store, store0, args, env, run_ts_utc, links, existing, to_fetch, idx,
                   rows_out, ok, fail, inserted, newest, norm, peer, txn>>

UpsertEvent(n) == [op |-> "upsert", n |-> n]

\* line 266
MainUpsert ==
    /\ pc = "loop"
    /\ idx > Len(to_fetch)
    /\ LET r == upsert_rows(store, rows_out)
       IN /\ store' = r.rows
          /\ inserted' = r.n
          /\ calls' = Append(calls, UpsertEvent(Len(rows_out)))
    /\ pc' = "report"
    /\ UNCHANGED <<store0, args, env, run_ts_utc, get, links, existing, to_fetch, idx,
                   rows_out, ok, fail, newest, norm, peer, txn>>

Summary ==
    [ op |-> "print", what |-> "SUMMARY", scanned |-> Len(links), attempted |-> Len(to_fetch),
      ok |-> ok, failed |-> fail, upserted |-> inserted ]

\* lines 268-277: the summary, then print_newest
MainReport ==
    /\ pc = "report"
    /\ calls' = Append(calls, Summary)
    /\ newest' \in print_newest(store, args.newest)
    /\ pc' = "done"
    /\ UNCHANGED <<store, store0, args, env, run_ts_utc, get, links, existing, to_fetch,
                   idx, rows_out, ok, fail, inserted, norm, peer, txn>>

Fetching == pc \in {"fetch_home", "fetch_article"}

Next ==
    \/ MainBegin
    \/ Fetching /\ \E body \in Bodies(get.url) : GetSucceeds(body)
    \/ Fetching /\ GetFails
    \/ Fetching /\ GetGivesUp
    \/ MainAbort
    \/ MainDiscover
    \/ MainFilter
    \/ MainFetchArticle
    \/ MainArticleFailed
    \/ MainArticleOk
    \/ MainArticleRaises
    \/ MainUpsert
    \/ MainReport

Spec == Init /\ [][Next]_vars

(***************************************************************************)
(* safe_get_html on its own: any url, retry count and backoff.             *)
(***************************************************************************)
Backoffs == {1, 2, 3}
DefaultArgs == [retries |-> 2, sleep |-> 1, limit_links |-> 60, newest |-> 10]

InitFetch ==
    /\ \E url \in {HomepageUrl, U1}, r \in 0..MaxRetries, b \in Backoffs :
           get = Activation(url, r, b)
    /\ pc = "safe_get_html"
    /\ store = {} /\ store0 = {}
    /\ args = DefaultArgs
    /\ env \in MainEnvs
    /\ run_ts_utc = EmptyStr
    /\ links = << >> /\ existing = {} /\ to_fetch = << >> /\ idx = 0
    /\ rows_out = << >> /\ ok = 0 /\ fail = 0
    /\ inserted = NotCalled /\ newest = NoRows
    /\ calls = << >>
    /\ norm = NormIdle
    /\ peer = PeerIdle
    /\ txn = NoTxn

NextFetch ==
    \/ \E body \in Bodies(get.url) : GetSucceeds(body)
    \/ GetFails
    \/ GetGivesUp

SpecFetch == InitFetch /\ [][NextFetch]_vars

(***************************************************************************)
(* The store on its own: any sequence of init_db, upsert_rows and          *)
(* print_newest calls on a database file that begins empty.  pc names the  *)
(* last call, rows_out the argument of the last upsert_rows, store0 the    *)
(* rows before the last init_db or upsert_rows.                            *)
(***************************************************************************)
MaxBatch == 2

IsoX == IsoFormat([day |-> RunDay, min |-> 272])
IsoY == IsoFormat([day |-> RunDay, min |-> 30])
IsoZ == IsoFormat([day |-> RunDay - 1, min |-> 900])
Rec(url, title, iso) ==
    [ url |-> url, run_ts_utc |-> NowText([day |-> RunDay, min |-> 300]), title |-> title,
      published_raw |-> EmptyStr, published_iso |-> iso, first_paragraph |-> "lead" ]
Records ==
    { Rec(U1, "A", IsoX), Rec(U1, "B", EmptyStr), Rec(U2, "A", IsoY), Rec(U2, "B", IsoX),
      Rec(U3, "A", IsoZ), Rec(U3, "", EmptyStr) }
NewestLimits == {-1, 0, 1, 2, 10}

InitStore ==
    /\ store = {} /\ store0 = {}
    /\ pc = "connect"
    /\ args = DefaultArgs
    /\ env \in MainEnvs
    /\ run_ts_utc = EmptyStr
    /\ get = GetIdle
    /\ links = << >> /\ existing = {} /\ to_fetch = << >> /\ idx = 0
    /\ rows_out = << >> /\ ok = 0 /\ fail = 0
    /\ inserted = NotCalled /\ newest = NoRows
    /\ calls = << >>
    /\ norm = NormIdle
    /\ peer = PeerIdle
    /\ txn = NoTxn

storeFrame == <<env, run_ts_utc, get, links, existing, to_fetch, idx, ok, fail,
                calls, norm, peer, txn>>

\* a session opens with init_db, as main does
StoreInitDb ==
    /\ store0' = store
    /\ store' = init_db(store)
    /\ pc' = "init_db"
    /\ args' = DefaultArgs
    /\ rows_out' = << >>
    /\ inserted' = NotCalled
    /\ newest' = NoRows
    /\ UNCHANGED storeFrame

\* upsert_rows(db_file, ds), once the table is there
StoreUpsert(ds) ==
    /\ pc \in {"init_db", "upsert_rows"}
    /\ store0' = store
    /\ rows_out' = ds
    /\ store' = upsert_rows(store, ds).rows
    /\ inserted' = upsert_rows(store, ds).n
    /\ pc' = "upsert_rows"
    /\ UNCHANGED <<args, newest>>
    /\ UNCHANGED storeFrame

\* print_newest(db_file, n) right after an upsert
StoreNewest(n) ==
    /\ pc = "upsert_rows"
    /\ args' = [args EXCEPT !.newest = n]
    /\ newest' \in print_newest(store, n)
    /\ pc' = "print_newest"
    /\ UNCHANGED <<store, store0, rows_out, inserted>>
    /\ UNCHANGED storeFrame

NextStore ==
    \/ StoreInitDb
    \/ \E ds \in SeqsUpTo(Records, MaxBatch) : StoreUpsert(ds)
    \/ \E n \in NewestLimits : StoreNewest(n)

SpecStore == InitStore /\ [][NextStore]_vars

(***************************************************************************)
(* parse_published_to_iso on its own: any raw text, any run reference, any *)
(* clock and local offset.                                                 *)
(***************************************************************************)
InitNorm ==
    /\ norm \in [st : {"called"}, raw : RawInputs, ref : RefInputs, now : Clocks,
                 localoff : LocalOffsets, out : {Returned(EmptyStr)}]
    /\ pc = "parse_published_to_iso"
    /\ store = {} /\ store0 = {}
    /\ args = DefaultArgs
    /\ env \in MainEnvs
    /\ run_ts_utc = EmptyStr
    /\ get = GetIdle
    /\ links = << >> /\ existing = {} /\ to_fetch = << >> /\ idx = 0
    /\ rows_out = << >> /\ ok = 0 /\ fail = 0
    /\ inserted = NotCalled /\ newest = NoRows
    /\ calls = << >>
    /\ peer = PeerIdle
    /\ txn = NoTxn

Normalize ==
    /\ norm.st = "called"
    /\ norm' = [norm EXCEPT !.st = "left",
                            !.out = parse_published_to_iso(norm.raw, norm.ref, norm.now,
                                                           norm.localoff)]
    /\ UNCHANGED <<store, store0, args, env, pc, run_ts_utc, get, links, existing,
                   to_fetch, idx, rows_out, ok, fail, inserted, newest, calls, peer, txn>>

SpecNorm == InitNorm /\ [][Normalize]_vars

(***************************************************************************)
(* What a state tells of the run so far.                                   *)
(***************************************************************************)
IsGet(i) == calls[i].op = "GET"
ArticleGets == {i \in 1..Len(calls) : IsGet(i) /\ calls[i].url # HomepageUrl}
UpsertCalls == {i \in 1..Len(calls) : calls[i].op = "upsert"}
HomepageAnswered ==
    \E i \in 1..Len(calls) :
        IsGet(i) /\ calls[i].url = HomepageUrl /\ calls[i].status # "failed"
\* the URLs of to_fetch the loop is done with
Processed == {to_fetch[i] : i \in 1..Len(to_fetch)} \cap
             {to_fetch[i] : i \in 1..(idx - 1)}
GotPage(u) == \E i \in 1..Len(calls) : IsGet(i) /\ calls[i].url = u /\ calls[i].status = "page"
GotAnswer(u) == \E i \in 1..Len(calls) : IsGet(i) /\ calls[i].url = u /\ calls[i].status # "failed"
UrlsOf(rows) == {r.url : r \in rows}
BufferedUrls == {rows_out[i].url : i \in 1..Len(rows_out)}

(* C1: when the homepage fetch fails after its retries, main aborts: past  *)
(* the homepage fetch the run is in its aborted state, it has made no      *)
(* article GET and no upsert_rows call, the table holds the rows it held   *)
(* when the run began, and the last thing it did was print the abort.      *)
C1_HomepageFailureAborts ==
    (pc \notin {"start", "fetch_home"} /\ ~HomepageAnswered) =>
        /\ pc = "aborted"
        /\ store = store0
        /\ ArticleGets = {}
        /\ UpsertCalls = {}
        /\ inserted = NotCalled
        /\ calls # << >>
        /\ calls[Len(calls)] = PrintEvent("Could not fetch homepage")

C1_Witness ==
    /\ pc = "aborted"
    /\ ~HomepageAnswered
    /\ store # {}
    /\ args.retries >= 1
    /\ Cardinality({i \in 1..Len(calls) : IsGet(i)}) = args.retries + 1

C2_FailedStep ==
    (pc = "fetch_article" /\ get.st = "done" /\ get.ret = None) =>
        /\ fail' = fail + 1
        /\ ok' = ok
        /\ idx' = idx + 1
        /\ pc' = "loop"
        /\ rows_out' = rows_out
        /\ store' = store
        /\ to_fetch' = to_fetch
C2_FailedNeverStored ==
    \A u \in Processed :
        ~GotAnswer(u) => u \notin BufferedUrls /\ u \notin UrlsOf(store)

(* C2: a step that finds the fetch of a URL of to_fetch failed adds        *)
(* exactly one to fail, moves the loop to the next URL and buffers and     *)
(* writes nothing; and no URL whose fetch failed is ever in rows_out or,   *)
(* through this run, in the table.                                         *)
C2_FailedArticleSkipped == [][C2_FailedStep]_vars /\ []C2_FailedNeverStored

C2_Witness ==
    /\ pc = "done"
    /\ Len(to_fetch) >= 2
    /\ ~GotAnswer(to_fetch[1])
    /\ GotPage(to_fetch[2])
    /\ fail = 1
    /\ inserted = 1

RECURSIVE PagesIn(_)
PagesIn(urls) ==
    IF urls = << >> THEN << >>
    ELSE (IF GotPage(Head(urls)) THEN <<Head(urls)>> ELSE << >>) \o PagesIn(Tail(urls))

(* C3: until the one upsert_rows call that follows the article loop the    *)
(* table holds the rows it held when the run began (also where the run     *)
(* crashed or aborted), articles being only buffered; a run that reaches   *)
(* its report has called upsert_rows exactly once, with exactly the        *)
(* articles that were fetched and processed, in order.                     *)
C3_SingleBulkUpsert ==
    /\ pc \notin {"report", "done"} =>
           /\ store = store0
           /\ UpsertCalls = {}
           /\ inserted = NotCalled
    /\ pc \in {"report", "done"} =>
           /\ Cardinality(UpsertCalls) = 1
           /\ \A i \in UpsertCalls : calls[i].n = Len(rows_out)
           /\ [i \in 1..Len(rows_out) |-> rows_out[i].url] = PagesIn(to_fetch)
           /\ store = {r \in store0 : r.url \notin BufferedUrls}
                          \cup {RowOf(rows_out[i]) : i \in 1..Len(rows_out)}

C3_Witness ==
    /\ pc = "done"
    /\ store0 # {}
    /\ Len(rows_out) >= 2
    /\ fail >= 0
    /\ store # store0

PosIn(seq, x) == CHOOSE i \in 1..Len(seq) : seq[i] = x

(* C6: once the existence check is done, to_fetch is the links whose URL   *)
(* was not in the table then, in the order of links; the run makes no GET  *)
(* of a URL the table held, and every row the table held is still there.   *)
C6_OnlyNewLinksFetched ==
    idx >= 1 =>
        /\ {to_fetch[i] : i \in 1..Len(to_fetch)}
               = {links[i] : i \in 1..Len(links)} \ UrlsOf(store0)
        /\ \A i, j \in 1..Len(to_fetch) :
               i < j => /\ to_fetch[i] # to_fetch[j]
                        /\ PosIn(links, to_fetch[i]) < PosIn(links, to_fetch[j])
        /\ \A i \in ArticleGets : calls[i].url \notin UrlsOf(store0)
        /\ store0 \subseteq store

C6_Witness ==
    /\ pc = "done"
    /\ Len(links) >= 2
    /\ links[1] \in UrlsOf(store0)
    /\ to_fetch = <<links[2]>>
    /\ inserted = 1

(* C10: between any two consecutive article fetches the run sleeps         *)
(* args.sleep seconds (the pacing delay), whether the earlier fetch        *)
(* succeeded or failed.                                                    *)
C10_PacedBetweenFetches ==
    \A i, j \in ArticleGets :
        (i < j /\ calls[i].url # calls[j].url) =>
            \E k \in i..j : calls[k] = SleepEvent("pace", args.sleep)

FailedGets == {i \in 1..Len(calls) : IsGet(i) /\ calls[i].status = "failed"}

(* C4: safe_get_html makes at most retries + 1 GETs; a GET that succeeds   *)
(* is its last act and its text is what it returns; the k-th failed GET    *)
(* (k from 1) is followed at once by a sleep of backoff * k; and it        *)
(* returns None only after retries + 1 GETs that all failed.               *)
C4_BoundedLinearRetry ==
    /\ Cardinality({i \in 1..Len(calls) : IsGet(i)}) <= get.retries + 1
    /\ \A i \in 1..Len(calls) :
           (IsGet(i) /\ calls[i].status # "failed") =>
               /\ i = Len(calls)
               /\ get.st = "done"
               /\ get.ret # None
               /\ (calls[i].status = "empty") = (get.ret = EmptyBody)
    /\ \A k \in 1..Cardinality(FailedGets) :
           /\ 2 * k <= Len(calls)
           /\ calls[2 * k - 1] = GetEvent(get.url, "failed")
           /\ calls[2 * k] = SleepEvent("backoff", get.backoff * k)
    /\ (get.st = "done" /\ get.ret = None) =>
           /\ Cardinality(FailedGets) = get.retries + 1
           /\ \A i \in 1..Len(calls) : IsGet(i) => calls[i].status = "failed"
    /\ (get.st = "done" /\ get.ret # None) =>
           /\ calls # << >>
           /\ IsGet(Len(calls)) /\ calls[Len(calls)].status # "failed"

C4_Witness ==
    /\ get.st = "done"
    /\ get.ret = None
    /\ get.retries >= 1
    /\ get.backoff = 3
    /\ Cardinality(FailedGets) = get.retries + 1

LastFor(ds, u) ==
    ds[CHOOSE i \in 1..Len(ds) : ds[i].url = u /\ \A j \in (i + 1)..Len(ds) : ds[j].url # u]
GivenUrls(ds) == {ds[i].url : i \in 1..Len(ds)}

(* C5: the table never holds two rows with one url; after upsert_rows(ds)  *)
(* the table holds, for every url of ds, exactly the last record ds gives  *)
(* for it, all six columns from that record; every row of another url is   *)
(* as it was; no url is gone; and init_db changes no row.                  *)
C5_UpsertByUrl ==
    /\ \A r1, r2 \in store : r1.url = r2.url => r1 = r2
    /\ pc = "upsert_rows" =>
           /\ \A u \in GivenUrls(rows_out) :
                  {r \in store : r.url = u} = {LastFor(rows_out, u)}
           /\ {r \in store : r.url \notin GivenUrls(rows_out)}
                  = {r \in store0 : r.url \notin GivenUrls(rows_out)}
           /\ UrlsOf(store0) \subseteq UrlsOf(store)
           /\ inserted = Len(rows_out)
    /\ pc = "init_db" => store = store0

C5_Witness ==
    /\ pc = "upsert_rows"
    /\ Len(rows_out) = 2
    /\ rows_out[1].url = rows_out[2].url
    /\ rows_out[1] # rows_out[2]
    /\ \E old \in store0, new \in store :
           /\ old.url = new.url
           /\ old.url = rows_out[2].url
           /\ old.published_iso # EmptyStr
           /\ new.published_iso = EmptyStr
    /\ \E r \in store : r.url # rows_out[2].url

NewestWellFormed ==
    /\ \A i \in 1..Len(newest) :
           /\ newest[i].published_iso # EmptyStr
           /\ \E r \in store : /\ r.url = newest[i].url
                               /\ r.published_iso = newest[i].published_iso
                               /\ r.title = newest[i].title
    /\ \A i, j \in 1..Len(newest) :
           i < j => /\ newest[i].url # newest[j].url
                    /\ ~StrLess(newest[i].published_iso, newest[j].published_iso)

(* C7: print_newest's SELECT with limit n, right after an upsert, returns  *)
(* never more than n rows, only rows whose published_iso is not empty, in  *)
(* descending order of published_iso.  This is the statement as claimed,   *)
(* for any n.                                                              *)
C7_NewestAnyLimit ==
    pc = "print_newest" => Len(newest) <= args.newest /\ NewestWellFormed

(* C7, amended: as above for a limit n >= 0; a negative n is no limit.     *)
C7_NewestNonNegativeLimit ==
    pc = "print_newest" =>
        /\ args.newest >= 0 => Len(newest) <= args.newest
        /\ NewestWellFormed

C7_Witness ==
    /\ pc = "print_newest"
    /\ inserted >= 1
    /\ args.newest = 2
    /\ Len(newest) = 2
    /\ StrLess(newest[2].published_iso, newest[1].published_iso)
    /\ Cardinality(store) = 3
    /\ \E r \in store : r.published_iso = EmptyStr

RefInstant(ref) ==
    LET tok == ref[1]
    IN Minus([day |-> tok.day, min |-> tok.min], 0, IF tok.tz = "off" THEN tok.off ELSE 0)
UnitSpan(w, n) ==
    CASE Lower(w) \in {"minute", "minutes"} -> [days |-> n \div MinutesPerDay, mins |-> n % MinutesPerDay]
      [] Lower(w) \in {"hour", "hours"} -> [days |-> n \div 24, mins |-> 60 * (n % 24)]
      [] Lower(w) \in {"day", "days"} -> [days |-> n, mins |-> 0]
      [] Lower(w) \in {"week", "weeks"} -> [days |-> 7 * n, mins |-> 0]

(* C8: for a relative time "<N> <unit> ago" (any letter case, whitespace   *)
(* around it) and a parseable reference R, parse_published_to_iso returns  *)
(* the instant R minus N units, in UTC.                                    *)
C8_RelativeExact ==
    norm.st = "left" =>
        \A n \in Nums, w \in RelWords, pad \in BOOLEAN :
            (norm.raw = RelText(n, w, pad) /\ norm.ref \in ParseableRefs) =>
                /\ ~norm.out.raised
                /\ norm.out.value =
                       IsoFormat(Minus(RefInstant(norm.ref), UnitSpan(w, n).days,
                                       UnitSpan(w, n).mins))

(* C9: parse_published_to_iso never raises, whatever the raw text and the  *)
(* run reference; text that matches no rule yields the empty string.       *)
C9_NeverRaises ==
    norm.st = "left" =>
        /\ ~norm.out.raised
        /\ norm.raw \in {EmptyStr, <<Ws>>, <<Word("garbage"), Ws, Word("text")>>}
               => norm.out.value = EmptyStr

(***************************************************************************)
(* extract_homepage_article_urls on its own: any markup.  get.ret is the   *)
(* markup given, links the list returned.                                  *)
(***************************************************************************)
DiscoverAnchors ==
    Anchors \cup { Anchor(TRUE, "WWW.BBC.COM", <<"news", "articles", "a1">>, ""),
                   Anchor(TRUE, "", <<"news", "articles", "a3">>, "top") }
DiscoverPages == {[kind |-> "home", anchors |-> a] : a \in SeqsUpTo(DiscoverAnchors, MaxAnchors)}

InitDiscover ==
    /\ \E h \in DiscoverPages :
           get = [st |-> "done", url |-> HomepageUrl, attempt |-> 0, retries |-> 0,
                  backoff |-> DefaultBackoff, ret |-> h]
    /\ pc = "extract_homepage_article_urls"
    /\ store = {} /\ store0 = {}
    /\ args = DefaultArgs
    /\ env \in MainEnvs
    /\ run_ts_utc = EmptyStr
    /\ links = << >> /\ existing = {} /\ to_fetch = << >> /\ idx = 0
    /\ rows_out = << >> /\ ok = 0 /\ fail = 0
    /\ inserted = NotCalled /\ newest = NoRows
    /\ calls = << >>
    /\ norm = NormIdle
    /\ peer = PeerIdle
    /\ txn = NoTxn

\* the call returns its list
Discover ==
    /\ pc = "extract_homepage_article_urls"
    /\ links' = extract_homepage_article_urls(get.ret)
    /\ pc' = "discovered"
    /\ UNCHANGED <<store, store0, args, env, run_ts_utc, get, existing, to_fetch, idx,
                   rows_out, ok, fail, inserted, newest, calls, norm, peer, txn>>

SpecDiscover == InitDiscover /\ [][Discover]_vars

\* the anchors of the markup that are links to keep, by the claim's words:
\* a host of the allow-list, a news path
KeptAt(anchors) ==
    {i \in 1..Len(anchors) :
        /\ anchors[i].href
        /\ LowerHost(UrlJoin(anchors[i]).host) \in BBC_HOSTS
        /\ NewsPath(anchors[i].path)}
\* the URL of an anchor without its fragment
SansFragment(a) == [host |-> UrlJoin(a).host, path |-> a.path]
FirstAt(anchors, u) ==
    CHOOSE i \in KeptAt(anchors) :
        SansFragment(anchors[i]) = u /\ \A j \in KeptAt(anchors) :
            SansFragment(anchors[j]) = u => i <= j

(* C11: the list extract_homepage_article_urls returns has no entry twice, *)
(* holds the kept URLs in the order of their first occurrence in the       *)
(* markup, and every entry has a host of the allow-list BBC_HOSTS, a news  *)
(* path and no fragment; links that differ by fragment only are one entry. *)
C11_DiscoverContract ==
    pc = "discovered" =>
        LET anchors == get.ret.anchors
        IN /\ \A i, j \in 1..Len(links) : i < j => links[i] # links[j]
           /\ {links[i] : i \in 1..Len(links)}
                  = {SansFragment(anchors[i]) : i \in KeptAt(anchors)}
           /\ \A i, j \in 1..Len(links) :
                  i < j => FirstAt(anchors, links[i]) < FirstAt(anchors, links[j])
           /\ \A i \in 1..Len(links) :
                  /\ links[i].host \in BBC_HOSTS
                  /\ NewsPath(links[i].path)
                  /\ DOMAIN links[i] = {"host", "path"}

\* the raw text is, between whitespace, one valid ISO-8601 timestamp that
\* ends in Z
IsoZInput(raw) ==
    LET p == Strip(raw)
    IN /\ Len(p) = 1
       /\ p[1].t \in {"iso", "isoalt"}
       /\ p[1].tz = "Z"
       /\ p[1].day >= 1 /\ p[1].day <= MaxOrdinal
       /\ p[1].min >= 0 /\ p[1].min < MinutesPerDay

(* C12: for a valid ISO-8601 timestamp that ends in Z, whatever the run    *)
(* reference, the clock and the local offset, parse_published_to_iso       *)
(* returns a timestamp, and (but for a leap second, which has no other     *)
(* name) it is the UTC text of the very date and time the input gives.     *)
C12_IsoZSameInstant ==
    (norm.st = "left" /\ IsoZInput(norm.raw)) =>
        LET tok == Strip(norm.raw)[1]
        IN /\ ~norm.out.raised
           /\ norm.out.value # EmptyStr
           /\ (tok.t = "iso" \/ tok.form # "leap") =>
                  norm.out.value = IsoFormat([day |-> tok.day, min |-> tok.min])

(***************************************************************************)
(* extract_article_fields on its own: any article markup.  get.ret is the  *)
(* markup, get.url the url given, rows_out the one dict returned.          *)
(***************************************************************************)
MaxParas == 2

IsoRaw == <<Iso(RunDay, 272, "Z", 0)>>
HoursAgo == <<Num(3), Ws, Word("hours"), Ws, Word("ago")>>
TimeEls ==
    { TimeEl(TRUE, IsoRaw, EmptyStr),
      TimeEl(TRUE, <<Ws, Iso(RunDay, 272, "Z", 0), Ws>>, <<Word("garbage"), Ws, Word("text")>>),
      TimeEl(TRUE, EmptyStr, HoursAgo),
      TimeEl(TRUE, <<Ws>>, HoursAgo),
      TimeEl(FALSE, EmptyStr, HoursAgo),
      TimeEl(FALSE, EmptyStr, EmptyStr) }
TimeLists ==
    {<< >>} \cup {<<t>> : t \in TimeEls} \cup {<<t, TimeEl(TRUE, IsoRaw, EmptyStr)>> : t \in TimeEls}
Headings == {<< >>, <<"Test Title">>, <<"Test Title", "Second">>, <<"">>}
Paras == {Para("short", 5), Para("edge", 60), Para("lead", 61), Para("long", 120), Para("", 0)}
ExtractPages ==
    {Page(h, t, p) : h \in Headings, t \in TimeLists, p \in SeqsUpTo(Paras, MaxParas)}

InitExtract ==
    /\ \E html \in ExtractPages, url \in {U1, U2} :
           get = [st |-> "done", url |-> url, attempt |-> 0, retries |-> 0,
                  backoff |-> DefaultBackoff, ret |-> html]
    /\ pc = "extract_article_fields"
    /\ store = {} /\ store0 = {}
    /\ args = DefaultArgs
    /\ env \in MainEnvs
    /\ run_ts_utc = EmptyStr
    /\ links = << >> /\ existing = {} /\ to_fetch = << >> /\ idx = 0
    /\ rows_out = << >> /\ ok = 0 /\ fail = 0
    /\ inserted = NotCalled /\ newest = NoRows
    /\ calls = << >>
    /\ norm = NormIdle
    /\ peer = PeerIdle
    /\ txn = NoTxn

\* the call returns its dict
Extract ==
    /\ pc = "extract_article_fields"
    /\ rows_out' = <<extract_article_fields(get.ret, get.url)>>
    /\ pc' = "extracted"
    /\ UNCHANGED <<store, store0, args, env, run_ts_utc, get, links, existing, to_fetch,
                   idx, ok, fail, inserted, newest, calls, norm, peer, txn>>

SpecExtract == InitExtract /\ [][Extract]_vars

\* what the claim says of title and first_paragraph
TitleAndLeadAsClaimed(html, d) ==
    /\ d.url = get.url
    /\ DOMAIN d = {"url", "title", "published_raw", "first_paragraph"}
    /\ d.title = (IF Len(html.h1) = 0 THEN "" ELSE Head(html.h1))
    /\ \/ \E i \in 1..Len(html.p) :
              /\ html.p[i].len > 60
              /\ \A j \in 1..(i - 1) : html.p[j].len <= 60
              /\ d.first_paragraph = html.p[i].text
       \/ /\ \A i \in 1..Len(html.p) : html.p[i].len <= 60
          /\ d.first_paragraph = ""

(* C13, as claimed: extract_article_fields returns title = the text of the *)
(* first h1 (empty if none), published_raw = the first time element's      *)
(* datetime attribute if it is present, else that element's visible text,  *)
(* else empty, and first_paragraph = the text of the first p whose text is *)
(* longer than 60 characters (empty if none is).                           *)
C13_ExtractAsClaimed ==
    pc = "extracted" =>
        LET html == get.ret
            d == rows_out[1]
        IN /\ TitleAndLeadAsClaimed(html, d)
           /\ d.published_raw =
                  (IF Len(html.time) = 0 THEN EmptyStr
                   ELSE IF Head(html.time).attr THEN Strip(Head(html.time).datetime)
                   ELSE Strip(Head(html.time).text))

(* C13, amended: as above, but published_raw is the datetime attribute     *)
(* (without the whitespace around it) if it is present and not the empty   *)
(* text, else the visible text of that first time element, else empty.     *)
C13_ExtractFields ==
    pc = "extracted" =>
        LET html == get.ret
            d == rows_out[1]
        IN /\ TitleAndLeadAsClaimed(html, d)
           /\ d.published_raw =
                  (IF Len(html.time) = 0 THEN EmptyStr
                   ELSE IF Head(html.time).attr /\ Len(Head(html.time).datetime) > 0
                        THEN Strip(Head(html.time).datetime)
                   ELSE Strip(Head(html.time).text))

C13_Witness ==
    /\ pc = "extracted"
    /\ Len(get.ret.h1) = 2
    /\ Len(get.ret.time) = 2
    /\ Head(get.ret.time).attr
    /\ Head(get.ret.time).datetime = EmptyStr
    /\ rows_out[1].published_raw = HoursAgo
    /\ Len(get.ret.p) = 2
    /\ get.ret.p[1].len = 60
    /\ rows_out[1].first_paragraph = get.ret.p[2].text
    /\ rows_out[1].title = "Test Title"

(***************************************************************************)
(* Two runs of main on one database file.  One is the run of Spec, step by *)
(* step; the other (peer) is a run of its own process, seen at its store   *)
(* operations: its existence check (after its homepage fetch), its article *)
(* loop, one iteration at a time (fetched: the urls it asked for, failed:  *)
(* those whose fetch gave nothing), and its upsert_rows.                   *)
(* Each store operation opens its own connection and is one transaction of *)
(* SQLite, so it is one step.                                              *)
(***************************************************************************)
TwoRunArgs == [retries |-> 0, sleep |-> 1, limit_links |-> 60, newest |-> 10]
TwoRunHome ==
    [kind |-> "home",
     anchors |-> << Anchor(TRUE, "", <<"news", "articles", "a1">>, ""),
                    Anchor(TRUE, "bbc.com", <<"news", "a2">>, "") >>]
TwoRunBodies(url) == {EmptyBody} \cup (IF url = HomepageUrl THEN {TwoRunHome} ELSE ArticlePages)

\* the peer's clock when it began
PeerNow == [day |-> RunDay, min |-> 301]
PeerStart ==
    [pc |-> "start", run_ts_utc |-> NowText(PeerNow), existing |-> {}, to_fetch |-> << >>,
     idx |-> 0, rows_out |-> << >>, fetched |-> {}, failed |-> {}]

InitTwoRuns ==
    /\ store \in InitialStores
    /\ store0 = store
    /\ args = TwoRunArgs
    /\ env \in MainEnvs
    /\ pc = "start"
    /\ run_ts_utc = EmptyStr
    /\ get = GetIdle
    /\ links = << >> /\ existing = {} /\ to_fetch = << >> /\ idx = 0
    /\ rows_out = << >> /\ ok = 0 /\ fail = 0
    /\ inserted = NotCalled /\ newest = NoRows
    /\ calls = << >>
    /\ norm = NormIdle
    /\ peer = PeerStart
    /\ txn = NoTxn

\* what a step of the peer leaves alone
peerFrame == <<store0, args, env, pc, run_ts_utc, get, links, existing, to_fetch, idx,
               rows_out, ok, fail, inserted, newest, calls, norm, txn>>

\* lines 228-248 in the peer: its homepage came, its existence check
PeerFilter ==
    /\ peer.pc = "start"
    /\ LET ls == Slice(extract_homepage_article_urls(TwoRunHome), args.limit_links)
           ex == get_existing_urls(init_db(store))
       IN peer' = [peer EXCEPT !.pc = "loop", !.existing = ex,
                               !.to_fetch = NotIn(ls, ex), !.idx = 1]
    /\ UNCHANGED store
    /\ UNCHANGED peerFrame

\* lines 250-264 in the peer: one iteration, html being what safe_get_html
\* returned
PeerArticle(html) ==
    /\ peer.pc = "loop"
    /\ peer.idx <= Len(peer.to_fetch)
    /\ LET url == peer.to_fetch[peer.idx]
           d == ArticleData(html, url, peer.run_ts_utc)
           r == parse_published_to_iso(d.published_raw, peer.run_ts_utc, PeerNow, env.localoff)
       IN peer' =
              IF Falsy(html)
              THEN [peer EXCEPT !.idx = @ + 1, !.fetched = @ \cup {url},
                                !.failed = @ \cup {url}]
              ELSE IF r.raised
                   THEN [peer EXCEPT !.pc = "crashed", !.fetched = @ \cup {url}]
                   ELSE [peer EXCEPT !.idx = @ + 1, !.fetched = @ \cup {url},
                              !.rows_out = Append(@,
                                  [ url |-> d.url, title |-> d.title,
                                    published_raw |-> d.published_raw,
                                    first_paragraph |-> d.first_paragraph,
                                    run_ts_utc |-> d.run_ts_utc, published_iso |-> r.value ])]
    /\ UNCHANGED store
    /\ UNCHANGED peerFrame

\* line 266 in the peer
PeerUpsert ==
    /\ peer.pc = "loop"
    /\ peer.idx > Len(peer.to_fetch)
    /\ store' = upsert_rows(store, peer.rows_out).rows
    /\ peer' = [peer EXCEPT !.pc = "done"]
    /\ UNCHANGED peerFrame

NextTwoRuns ==
    \/ MainBegin
    \/ Fetching /\ \E body \in TwoRunBodies(get.url) : GetSucceeds(body)
    \/ Fetching /\ GetFails
    \/ Fetching /\ GetGivesUp
    \/ MainAbort
    \/ MainDiscover
    \/ MainFilter
    \/ MainFetchArticle
    \/ MainArticleFailed
    \/ MainArticleOk
    \/ MainArticleRaises
    \/ MainUpsert
    \/ MainReport
    \/ PeerFilter
    \/ \E html \in {None} \cup TwoRunBodies(U1) : PeerArticle(html)
    \/ PeerUpsert

SpecTwoRuns == InitTwoRuns /\ [][NextTwoRuns]_vars

C14_OneRowPerUrl == \A r1, r2 \in store : r1.url = r2.url => r1 = r2

\* the records of the upsert_rows call a step commits, if it commits one
Committed ==
    IF pc = "loop" /\ pc' = "report" THEN rows_out
    ELSE IF peer.pc = "loop" /\ peer'.pc = "done" THEN peer.rows_out
    ELSE << >>
C14_UpsertReplaces ==
    /\ \A i \in 1..Len(Committed) :
           {r \in store' : r.url = Committed[i].url} = {RowOf(Committed[i])}
    /\ {r \in store' : r.url \notin GivenUrls(Committed)}
           = {r \in store : r.url \notin GivenUrls(Committed)}

(* C14: however two runs on one database file interleave, also when both  *)
(* fetch the same url between the existence check of one and the upsert of *)
(* the other, the table never holds two rows with one url, and an          *)
(* upsert_rows call leaves, for each of its urls, its own record in the    *)
(* place of any earlier one, all other rows being as they were.            *)
C14_InterleavedUpserts == []C14_OneRowPerUrl /\ [][C14_UpsertReplaces]_vars

C14_Witness ==
    /\ pc = "done"
    /\ peer.pc = "done"
    /\ \E i \in 1..Len(rows_out), j \in 1..Len(peer.rows_out) :
           /\ rows_out[i].url = peer.rows_out[j].url
           /\ GotPage(rows_out[i].url)
           /\ rows_out[i].url \in peer.fetched
           /\ RowOf(rows_out[i]) # RowOf(peer.rows_out[j])
           /\ RowOf(peer.rows_out[j]) \in store
           /\ RowOf(rows_out[i]) \notin store

(***************************************************************************)
(* upsert_rows step by step: one call on a table that holds some rows.     *)
(* store is what is committed, which every other connection sees; txn is   *)
(* the call's connection: view is the table as its open transaction has    *)
(* it, i the position of the loop, n the count.  sqlite3 opens the         *)
(* transaction before the first INSERT; conn.commit() makes view the       *)
(* table; a connection that goes away without commit is rolled back.       *)
(* rows_out is the argument, store0 the table at the call.                 *)
(***************************************************************************)
InitUpsert ==
    /\ store \in InitialStores
    /\ store0 = store
    /\ rows_out \in SeqsUpTo(Records, MaxBatch)
    /\ pc = "upsert_rows"
    /\ args = DefaultArgs
    /\ env \in MainEnvs
    /\ run_ts_utc = EmptyStr
    /\ get = GetIdle
    /\ links = << >> /\ existing = {} /\ to_fetch = << >> /\ idx = 0
    /\ ok = 0 /\ fail = 0
    /\ inserted = NotCalled /\ newest = NoRows
    /\ calls = << >>
    /\ norm = NormIdle
    /\ peer = PeerIdle
    /\ txn = NoTxn

upsertFrame == <<store0, args, env, run_ts_utc, get, links, existing, to_fetch, idx,
                 rows_out, ok, fail, newest, calls, norm, peer>>

\* lines 171-172: if not rows: return 0
UpsertNothing ==
    /\ pc = "upsert_rows"
    /\ txn = NoTxn
    /\ rows_out = << >>
    /\ inserted' = 0
    /\ pc' = "returned"
    /\ UNCHANGED <<store, txn>>
    /\ UNCHANGED upsertFrame

\* lines 174-176
UpsertConnect ==
    /\ pc = "upsert_rows"
    /\ txn = NoTxn
    /\ rows_out # << >>
    /\ txn' = [st |-> "open", view |-> store, i |-> 1, n |-> 0]
    /\ UNCHANGED <<store, pc, inserted>>
    /\ UNCHANGED upsertFrame

\* a variant: a connection in autocommit mode, each INSERT is committed
UpsertExecuteAutocommit ==
    /\ txn.st = "open"
    /\ txn.i <= Len(rows_out)
    /\ txn' = [txn EXCEPT !.view = InsertOrReplace(@, rows_out[txn.i]),
                          !.i = @ + 1, !.n = @ + 1]
    /\ store' = InsertOrReplace(txn.view, rows_out[txn.i])
    /\ UNCHANGED <<pc, inserted>>
    /\ UNCHANGED upsertFrame

\* lines 178-191: one cur.execute and n += 1
UpsertExecute ==
    /\ txn.st = "open"
    /\ txn.i <= Len(rows_out)
    /\ txn' = [txn EXCEPT !.view = InsertOrReplace(@, rows_out[txn.i]),
                          !.i = @ + 1, !.n = @ + 1]
    /\ UNCHANGED <<store, pc, inserted>>
    /\ UNCHANGED upsertFrame

\* lines 193-195: commit, close, return n
UpsertCommit ==
    /\ txn.st = "open"
    /\ txn.i > Len(rows_out)
    /\ store' = txn.view
    /\ txn' = [txn EXCEPT !.st = "closed"]
    /\ inserted' = txn.n
    /\ pc' = "returned"
    /\ UNCHANGED upsertFrame

\* cur.execute or conn.commit raises sqlite3.Error, or the process dies:
\* nothing in upsert_rows catches it, the connection goes away uncommitted
UpsertRaises ==
    /\ txn.st = "open"
    /\ txn' = [txn EXCEPT !.st = "rolled back"]
    /\ pc' = "raised"
    /\ UNCHANGED <<store, inserted>>
    /\ UNCHANGED upsertFrame

NextUpsert ==
    \/ UpsertNothing
    \/ UpsertConnect
    \/ UpsertExecute
    \/ UpsertCommit
    \/ UpsertRaises

SpecUpsert == InitUpsert /\ [][NextUpsert]_vars

(* C15: upsert_rows is all-or-nothing: the committed table is the table at *)
(* the call until the call returns, and then it has all the call's         *)
(* records; after a failure or a crash between the first INSERT and the    *)
(* commit it is the table at the call, with none of the call's records     *)
(* written, and the call has returned no count: the failure went to the    *)
(* caller.                                                                 *)
C15_AllOrNothing ==
    /\ pc # "returned" => store = store0 /\ inserted = NotCalled
    /\ pc = "raised" =>
           /\ txn.st = "rolled back"
           /\ \A i \in 1..Len(rows_out) :
                  RowOf(rows_out[i]) \in store => RowOf(rows_out[i]) \in store0
    /\ pc = "returned" =>
           /\ inserted = Len(rows_out)
           /\ \A u \in GivenUrls(rows_out) :
                  {r \in store : r.url = u} = {LastFor(rows_out, u)}
           /\ {r \in store : r.url \notin GivenUrls(rows_out)}
                  = {r \in store0 : r.url \notin GivenUrls(rows_out)}

C15_Witness ==
    /\ pc = "raised"
    /\ Len(rows_out) = 2
    /\ txn.i = 2
    /\ txn.n = 1
    /\ txn.view # store
    /\ store # {}
    /\ \E r \in store : r.url = rows_out[1].url

(***************************************************************************)
(* main's run for any --limit-links: argparse takes every int.             *)
(***************************************************************************)
LimitArgs == [retries : {0}, sleep : {1}, limit_links : {-1, 0, 1, 2}, newest : {10}]

InitLimits ==
    /\ store \in InitialStores
    /\ store0 = store
    /\ args \in LimitArgs
    /\ env \in MainEnvs
    /\ pc = "start"
    /\ run_ts_utc = EmptyStr
    /\ get = GetIdle
    /\ links = << >> /\ existing = {} /\ to_fetch = << >> /\ idx = 0
    /\ rows_out = << >> /\ ok = 0 /\ fail = 0
    /\ inserted = NotCalled /\ newest = NoRows
    /\ calls = << >>
    /\ norm = NormIdle
    /\ peer = PeerIdle
    /\ txn = NoTxn

SpecLimits == InitLimits /\ [][Next]_vars

Summaries == {i \in 1..Len(calls) : calls[i].op = "print" /\ calls[i].what = "SUMMARY"}

\* the counters in the loop, and the counts of the summary but for the limit
CountersAgree ==
    /\ idx >= 1 =>
           /\ idx - 1 <= Len(to_fetch)
           /\ ok + fail = idx - 1
           /\ Len(rows_out) = ok
           /\ \A i, j \in 1..Len(rows_out) : i < j => rows_out[i].url # rows_out[j].url
    /\ pc = "done" => Cardinality(Summaries) = 1
    /\ \A i \in Summaries :
           /\ calls[i].scanned = Len(links)
           /\ calls[i].attempted = Len(to_fetch)
           /\ calls[i].attempted = calls[i].ok + calls[i].failed
           /\ calls[i].upserted = calls[i].ok
           /\ calls[i].attempted <= calls[i].scanned

(* C16, as claimed: in the article loop ok + fail is the number of URLs of *)
(* to_fetch processed and rows_out holds ok records of distinct urls; in   *)
(* the summary of a run that was not aborted, new attempted = succeeded +  *)
(* failed, rows written = succeeded, and new attempted <= links scanned    *)
(* <= --limit-links.                                                       *)
C16_CountsAnyLimit ==
    /\ CountersAgree
    /\ \A i \in Summaries : calls[i].scanned <= args.limit_links

(* C16, amended: as above, with links scanned <= --limit-links for a       *)
(* --limit-links that is not negative.                                     *)
C16_CountsNonNegativeLimit ==
    /\ CountersAgree
    /\ \A i \in Summaries : args.limit_links >= 0 => calls[i].scanned <= args.limit_links

C16_Witness ==
    /\ pc = "done"
    /\ args.limit_links = 2
    /\ Len(links) = 2
    /\ Len(to_fetch) = 2
    /\ ok = 1
    /\ fail = 1
    /\ inserted = 1

(***************************************************************************)
(* Two runs of main in sequence on one database file, the homepage giving  *)
(* the same links to both: the peer runs first, to its end (its report or  *)
(* the exception that ends it), then the run of Spec.                      *)
(***************************************************************************)
PeerOver == peer.pc \in {"done", "crashed"}

NextTwice ==
    \/ PeerFilter
    \/ \E html \in {None} \cup TwoRunBodies(U1) : PeerArticle(html)
    \/ PeerUpsert
    \/ PeerOver /\ MainBegin
    \/ PeerOver /\ Fetching /\ \E body \in TwoRunBodies(get.url) : GetSucceeds(body)
    \/ PeerOver /\ Fetching /\ GetFails
    \/ PeerOver /\ Fetching /\ GetGivesUp
    \/ PeerOver /\ MainAbort
    \/ PeerOver /\ MainDiscover
    \/ PeerOver /\ MainFilter
    \/ PeerOver /\ MainFetchArticle
    \/ PeerOver /\ MainArticleFailed
    \/ PeerOver /\ MainArticleOk
    \/ PeerOver /\ MainArticleRaises
    \/ PeerOver /\ MainUpsert
    \/ PeerOver /\ MainReport

SpecTwice == InitTwoRuns /\ [][NextTwice]_vars

\* the rows the first run stored, and the table as it left it
StoredByFirst == IF peer.pc = "done" THEN {RowOf(peer.rows_out[i]) : i \in 1..Len(peer.rows_out)} ELSE {}
LeftByFirst == IF peer.pc = "done" THEN upsert_rows(store0, peer.rows_out).rows ELSE store0

(* C17: in the second of two runs in sequence, no url the first run stored *)
(* is fetched or rewritten; if every article fetch of the first run        *)
(* succeeded, the second makes no article fetch, upserts no row and leaves *)
(* the table as it found it; a url whose fetch failed in the first run is  *)
(* not in the table and is attempted again by the second.                  *)
C17_SecondRunIdempotent ==
    (PeerOver /\ idx >= 1) =>
        /\ \A r \in StoredByFirst :
               /\ \A i \in 1..Len(to_fetch) : to_fetch[i] # r.url
               /\ \A i \in ArticleGets : calls[i].url # r.url
               /\ r \in store
        /\ (peer.failed = {} /\ peer.fetched = {peer.to_fetch[i] : i \in 1..Len(peer.to_fetch)}) =>
               /\ to_fetch = << >>
               /\ ArticleGets = {}
               /\ pc \in {"report", "done"} => inserted = 0 /\ store = LeftByFirst
        /\ \A u \in peer.failed :
               /\ u \notin UrlsOf(LeftByFirst)
               /\ \E i \in 1..Len(to_fetch) : to_fetch[i] = u

(***************************************************************************)
(* main's run where every step that can be taken is taken in the end: each *)
(* HTTP request returns or fails, each sleep ends, and the process goes on *)
(* to its next statement.                                                  *)
(***************************************************************************)
SpecLive == Init /\ [][Next]_vars /\ WF_vars(Next)

AllGets == {i \in 1..Len(calls) : IsGet(i)}
GetsOf(u) == {i \in AllGets : calls[i].url = u}

\* the GETs so far are within the bound and go through to_fetch in order
C18_BoundedInOrder ==
    /\ Cardinality(AllGets) <= (1 + Len(to_fetch)) * (args.retries + 1)
    /\ \A i \in ArticleGets : \E k \in 1..Len(to_fetch) : to_fetch[k] = calls[i].url
    /\ \A i, j \in ArticleGets :
           i < j => PosIn(to_fetch, calls[i].url) <= PosIn(to_fetch, calls[j].url)
    /\ \A k \in 1..Len(to_fetch) :
           /\ Cardinality(GetsOf(to_fetch[k])) <= args.retries + 1
           /\ k < idx => GetsOf(to_fetch[k]) # {}
           /\ k > idx => GetsOf(to_fetch[k]) = {}
    /\ pc = "done" => idx = Len(to_fetch) + 1 /\ ok + fail = Len(to_fetch)

(* C18: every run of main ends at the abort that follows the homepage      *)
(* failure or at its final report, having made at most (1 + the number of  *)
(* URLs of to_fetch) * (retries + 1) GETs and having gone through to_fetch *)
(* in order, each URL once.                                                *)
C18_Terminates == <>(pc \in {"aborted", "done"}) /\ []C18_BoundedInOrder

====
